---------------------------- MODULE Spec2Model ----------------------------
(***************************************************************************)
(* A model of action.py: one invocation of main() (or two concurrent       *)
(* invocations) driving the Unity Cloud Build remote API.                  *)
(*                                                                         *)
(* Python strings are sequences of one-character strings.  An optional     *)
(* value (Python None or a value) is a set with at most one element.       *)
(***************************************************************************)
EXTENDS Naturals, Integers, Sequences, FiniteSets, TLC

\* ------------------------------------------------------------------------
\* Optional values and strings
\* ------------------------------------------------------------------------

None == {}

Some(x) == {x}

TheValue(o) == CHOOSE x \in o : TRUE

\* Python truthiness of an optional string: None and "" are falsy
Falsy(o) == o = None \/ TheValue(o) = <<>>

Min(a, b) == IF a <= b THEN a ELSE b

\* s.startswith(prefix)
StartsWith(s, prefix) ==
    /\ Len(prefix) <= Len(s)
    /\ SubSeq(s, 1, Len(prefix)) = prefix

\* sub in s
Contains(s, sub) ==
    \E i \in 1..(Len(s) - Len(sub) + 1) : SubSeq(s, i, i + Len(sub) - 1) = sub

\* s.replace(old, new): every non-overlapping occurrence, left to right
RECURSIVE Replace(_, _, _)
Replace(s, old, new) ==
    IF s = <<>> THEN <<>>
    ELSE IF StartsWith(s, old)
         THEN new \o Replace(SubSeq(s, Len(old) + 1, Len(s)), old, new)
         ELSE <<Head(s)>> \o Replace(Tail(s), old, new)

Digits == {"0", "1", "2", "3", "4", "5", "6", "7", "8", "9"}

UpperCase ==
    <<"A", "B", "C", "D", "E", "F", "G", "H", "I", "J", "K", "L", "M",
      "N", "O", "P", "Q", "R", "S", "T", "U", "V", "W", "X", "Y", "Z">>

LowerCase ==
    <<"a", "b", "c", "d", "e", "f", "g", "h", "i", "j", "k", "l", "m",
      "n", "o", "p", "q", "r", "s", "t", "u", "v", "w", "x", "y", "z">>

Range(f) == {f[i] : i \in DOMAIN f}

\* the character class [0-9a-zA-Z]
IsAlnum(c) == c \in Digits \cup Range(UpperCase) \cup Range(LowerCase)

\* str.lower() on one character
LowerChar(c) ==
    IF c \in Range(UpperCase)
    THEN LowerCase[CHOOSE i \in DOMAIN UpperCase : UpperCase[i] = c]
    ELSE c

\* str.lower()
Lower(s) == [i \in DOMAIN s |-> LowerChar(s[i])]

\* re.sub("[^0-9a-zA-Z]+", "-", s): each maximal run of other characters
\* becomes one hyphen
RECURSIVE SubNonAlnumRuns(_)
SubNonAlnumRuns(s) ==
    IF s = <<>> THEN <<>>
    ELSE IF IsAlnum(Head(s))
         THEN <<Head(s)>> \o SubNonAlnumRuns(Tail(s))
         ELSE LET rest == Tail(s)
                  k == IF \E i \in DOMAIN rest : IsAlnum(rest[i])
                       THEN (CHOOSE i \in DOMAIN rest :
                                /\ IsAlnum(rest[i])
                                /\ \A j \in 1..(i - 1) : ~IsAlnum(rest[j])) - 1
                       ELSE Len(rest)
              IN <<"-">> \o SubNonAlnumRuns(SubSeq(rest, k + 1, Len(rest)))

RefsTags == <<"r", "e", "f", "s", "/", "t", "a", "g", "s", "/">>

RefsHeads == <<"r", "e", "f", "s", "/", "h", "e", "a", "d", "s", "/">>

RefsPull == <<"r", "e", "f", "s", "/", "p", "u", "l", "l", "/">>

PullRequestLabel ==
    <<"p", "u", "l", "l", " ", "r", "e", "q", "u", "e", "s", "t", " ">>

MergeSuffix == <<"/", "m", "e", "r", "g", "e">>

\* ------------------------------------------------------------------------
\* Pure functions of action.py
\* ------------------------------------------------------------------------

\* get_branch_and_label raising only when no head ref was passed at all
BranchAndLabelRaises_OnlyMissing(branch_ref, head_ref) ==
    StartsWith(branch_ref, RefsPull) /\ head_ref = None

\* get_branch_and_label raises (pull request without a head ref)
BranchAndLabelRaises(branch_ref, head_ref) ==
    StartsWith(branch_ref, RefsPull) /\ Falsy(head_ref)

\* get_branch_and_label(branch_ref, head_ref) when it does not raise
get_branch_and_label(branch_ref, head_ref) ==
    LET is_pull_request == StartsWith(branch_ref, RefsPull)
        b1 == Replace(branch_ref, RefsTags, <<>>)
        b2 == Replace(b1, RefsHeads, <<>>)
        b3 == Replace(b2, RefsPull, PullRequestLabel)
        head0 == IF head_ref = None THEN <<>> ELSE TheValue(head_ref)
        head1 == Replace(head0, RefsHeads, <<>>)
    IN [branch |-> IF is_pull_request THEN head1 ELSE b3,
        label  |-> b3]

\* get_build_targetname 125-128 raises (the BranchAndLabel object is always
\* truthy)
BuildTargetnameRaises(primary_build_target) == Falsy(primary_build_target)

\* get_build_targetname without the slice of line 138
get_build_targetname_NoSlice(primary_build_target, bl) ==
    Lower(primary_build_target \o <<"-">> \o SubNonAlnumRuns(bl.label))

\* the slice bound of target_name[:63]
TargetNameSlice == 63

\* get_build_targetname(primary_build_target, branch_and_label)
get_build_targetname(primary_build_target, bl) ==
    LET t1 == SubNonAlnumRuns(bl.label)
        t2 == primary_build_target \o <<"-">> \o t1
        t3 == SubSeq(t2, 1, Min(TargetNameSlice, Len(t2)))
    IN Lower(t3)


\* ------------------------------------------------------------------------
\* Inputs of main() and the remote system
\* ------------------------------------------------------------------------

\* the invocations of main() a pipeline may launch
Procs == {1, 2}

Org == <<"o", "r", "g">>

Mac == <<"M", "a", "c">>

RemoteProject == <<"p", "1">>

Main == <<"m", "a", "i", "n">>

FeatureX == <<"f", "e", "a", "t", "u", "r", "e", "-", "x">>

\* --github_branch_ref
BranchRefs ==
    { None,
      Some(RefsHeads \o Main),
      Some(RefsHeads \o <<"F", "i", "x", "/", "1">>),
      Some(RefsTags \o <<"v", "1">>),
      Some(RefsPull \o <<"4", "2">> \o MergeSuffix) }

\* --github_head_ref
HeadRefs == {None, Some(RefsHeads \o FeatureX)}

\* the click options of main()
ArgsSet ==
    [org_id : {None, Some(Org)},
     project_id : {None, Some(<<"P", "1">>)},
     primary_build_target : {None, Some(Mac)},
     download_binary : BOOLEAN,
     create_share : BOOLEAN,
     existing_build_number : {None, Some(7)},
     github_branch_ref : BranchRefs,
     github_head_ref : HeadRefs,
     allow_new_target : BOOLEAN]

\* the primary build target as the remote system holds it
PrimaryMeta ==
    [name |-> Lower(Mac),
     platform |-> "standaloneosxuniversal",
     settings |-> [scm |-> [type |-> "git", branch |-> Main],
                   autoBuild |-> TRUE,
                   buildSchedule |-> {"nightly"}],
     credentials |-> "signing"]

\* buildStatus values of the remote system
RemoteStatuses ==
    {"queued", "sentToBuilder", "started", "restarted",
     "success", "failure", "canceled", "cancelled", "unknown"}

max_timeouts_in_a_row == 6

NameInUse == "Build target name already in use for this project!"

\* outcomes of a GET (send_request): status 200, another status, or a timeout
GetOutcomes(exists) ==
    IF exists THEN {"ok", "error", "timeout"} ELSE {"error", "timeout"}

\* the exception send_request / post_request end with
RequestError(outcome) == IF outcome = "timeout" THEN "Timeout" ELSE "UpstreamError"

VARIABLES
    launched,           \* the invocations that run
    args,               \* each invocation's options
    pc,                 \* each invocation's position in main()
    exit_code,          \* process exit code, -1 while running
    raised,             \* the exception that ended the invocation, or "none"
    message,            \* what that exception quotes, if anything
    branch_and_label,   \* main: branch_and_label
    build_target_name,  \* main: build_target_name
    gbtm_name,          \* get_build_target_meta: build_target_name
    primary_target_meta,\* create_new_build_target: primary_target_meta
    payload,            \* create_new_build_target: payload, once it is sent
    existing_meta,      \* get_build_target_meta: existing_meta, once returned
    build_number,       \* main: build_number
    build_meta,         \* main: build_meta returned by the poll loop
    timeout_count,      \* wait_for_successfull_build: timeout_count
    targets,            \* remote: the build targets of the project
    builds,             \* remote: number of builds started
    sent,               \* history: requests each invocation has sent
    seen,               \* history: answers received, and "reconciled" once
                        \* get_build_target_meta has returned
    last_poll,          \* history: outcome of the latest status request
    absorbed,           \* history: timeouts in a row the latest response reset
    polls,              \* history: sleeps, status requests and their outcomes
    fn,                 \* the function under call, "main" for a whole run
    fn_args,            \* the arguments of a function called on its own
    fn_result           \* how far that call is and what it gave

vars ==
    <<launched, args, pc, exit_code, raised, message, branch_and_label,
      build_target_name, gbtm_name, primary_target_meta, payload,
                   existing_meta, build_number,
      build_meta, timeout_count, targets, builds, sent, seen, last_poll,
      absorbed, polls, fn, fn_args, fn_result>>

locals ==
    <<branch_and_label, build_target_name, gbtm_name, primary_target_meta,
      payload, existing_meta,
      build_number, build_meta, timeout_count>>

remote == <<targets, builds>>

pollHistory == <<last_poll, absorbed, polls>>

calls == <<fn, fn_args, fn_result>>

\* main lines 576-579: the lower-cased project id and primary target
ProjectId(p) ==
    IF args[p].project_id = None THEN None
    ELSE Some(Lower(TheValue(args[p].project_id)))

PrimaryBuildTarget(p) ==
    IF args[p].primary_build_target = None THEN None
    ELSE Some(Lower(TheValue(args[p].primary_build_target)))

TargetExists(name) == \E t \in targets : t.name = name

TargetMeta(name) == CHOOSE t \in targets : t.name = name

\* ------------------------------------------------------------------------
\* Control
\* ------------------------------------------------------------------------

\* invocation p runs and stands at label
At(p, label) == p \in launched /\ pc[p] = label

Goto(p, label) ==
    /\ pc' = [pc EXCEPT ![p] = label]
    /\ UNCHANGED <<exit_code, raised, message>>

\* an uncaught exception quoting what ends the process with exit code 1
RaiseWith(p, kind, what) ==
    /\ pc' = [pc EXCEPT ![p] = "exited"]
    /\ exit_code' = [exit_code EXCEPT ![p] = 1]
    /\ raised' = [raised EXCEPT ![p] = kind]
    /\ message' = [message EXCEPT ![p] = what]

\* what an exception's text quotes of the answer that caused it
Quote(status, error, array) ==
    [status |-> status, error |-> error, array |-> array]

NoQuote == Quote(None, None, None)

\* an uncaught exception ends the process with exit code 1
Raise(p, kind) == RaiseWith(p, kind, NoQuote)

\* sys.exit(0), or main returning to click
Exit0(p) ==
    /\ pc' = [pc EXCEPT ![p] = "exited"]
    /\ exit_code' = [exit_code EXCEPT ![p] = 0]
    /\ UNCHANGED <<raised, message>>

Sent(p, kind) == sent' = [sent EXCEPT ![p][kind] = @ + 1]

SentPoll(p) == sent' = [sent EXCEPT ![p].poll = TRUE]

Seen(p, what) == seen' = [seen EXCEPT ![p] = @ \cup {what}]

\* ------------------------------------------------------------------------
\* Helpers of the builder
\* ------------------------------------------------------------------------

\* UnityCloudBuilder.get_build_targetname, given the fetched primary meta
BuilderTargetname(primary, bl, primary_meta) ==
    IF primary_meta.settings.scm.branch = bl.branch
    THEN primary
    ELSE get_build_targetname(primary, bl)

\* the payload without the reset of line 399
CreationPayload_KeepSchedule(name, primary_meta, bl) ==
    [name |-> name,
     enabled |-> TRUE,
     platform |-> primary_meta.platform,
     settings |-> [primary_meta.settings EXCEPT !.scm.branch = bl.branch],
     credentials |-> primary_meta.credentials]

\* create_new_build_target: the payload (settings is the primary's dict,
\* modified in place)
CreationPayload(name, primary_meta, bl) ==
    [name |-> name,
     enabled |-> TRUE,
     platform |-> primary_meta.platform,
     settings |-> [primary_meta.settings EXCEPT !.scm.branch = bl.branch,
                                                !.buildSchedule = {}],
     credentials |-> primary_meta.credentials]

\* the build target the remote system stores for an accepted payload
TargetFromPayload(posted) ==
    [name |-> posted.name,
     platform |-> posted.platform,
     settings |-> posted.settings,
     credentials |-> posted.credentials]

\* the derived target an earlier run with options a has left behind
EarlierRunTargets(a) ==
    IF \/ a.github_branch_ref = None
       \/ a.primary_build_target = None
       \/ BranchAndLabelRaises(TheValue(a.github_branch_ref), a.github_head_ref)
    THEN {}
    ELSE LET bl == get_branch_and_label(TheValue(a.github_branch_ref),
                                        a.github_head_ref)
             primary == Lower(TheValue(a.primary_build_target))
             name == BuilderTargetname(primary, bl, PrimaryMeta)
         IN IF name = primary THEN {}
            ELSE {TargetFromPayload(CreationPayload(name, PrimaryMeta, bl))}

\* refs of other branches an earlier run may have been launched for
OtherRefs == {Some(RefsHeads \o <<"f", "i", "x", "-", "1">>)}

\* the derived targets earlier runs for other refs have left behind under
\* the name that the run with options a derives
SameNameTargets(a) ==
    {t \in UNION {EarlierRunTargets([a EXCEPT !.github_branch_ref = ref]) :
                    ref \in OtherRefs} :
        \E own \in EarlierRunTargets(a) : own.name = t.name /\ own # t}

NoBuilder == <<"n", "o", " ", "b", "u", "i", "l", "d", "e", "r">>

Throttled == <<"t", "h", "r", "o", "t", "t", "l", "e", "d">>

\* an element of the array answering a build-start POST: the build and
\* error fields are there or not, and the error may be empty
StartResponses(n) ==
    [build : {None, Some(n)},
     error : {None, Some(<<>>), Some(NoBuilder)}]

\* the arrays answering a build-start POST that would be build n: one
\* element, or two that differ in what they carry
StartArrays(n) ==
    {<<first>> : first \in StartResponses(n)}
    \cup {<<first, second>> :
            first \in StartResponses(n),
            second \in {[build |-> Some(n + 1), error |-> None],
                        [build |-> None, error |-> Some(Throttled)]}}

\* ------------------------------------------------------------------------
\* Initial states
\* ------------------------------------------------------------------------

DefaultArgs ==
    [org_id |-> Some(Org),
     project_id |-> Some(<<"P", "1">>),
     primary_build_target |-> Some(Mac),
     download_binary |-> FALSE,
     create_share |-> FALSE,
     existing_build_number |-> None,
     github_branch_ref |-> Some(RefsPull \o <<"4", "2">> \o MergeSuffix),
     github_head_ref |-> Some(RefsHeads \o FeatureX),
     allow_new_target |-> TRUE]

InitLocals ==
    /\ pc = [p \in Procs |-> "start"]
    /\ exit_code = [p \in Procs |-> -1]
    /\ raised = [p \in Procs |-> "none"]
    /\ branch_and_label = [p \in Procs |-> None]
    /\ build_target_name = [p \in Procs |-> None]
    /\ gbtm_name = [p \in Procs |-> None]
    /\ primary_target_meta = [p \in Procs |-> None]
    /\ payload = [p \in Procs |-> None]
    /\ existing_meta = [p \in Procs |-> None]
    /\ build_number = [p \in Procs |-> None]
    /\ build_meta = [p \in Procs |-> None]
    /\ timeout_count = [p \in Procs |-> 0]
    /\ builds = 0
    /\ sent = [p \in Procs |->
                 [create |-> 0, start |-> 0, download |-> 0, share |-> 0,
                  poll |-> FALSE]]
    /\ seen = [p \in Procs |-> {}]
    /\ last_poll = [p \in Procs |-> "none"]
    /\ absorbed = [p \in Procs |-> 0]
    /\ message = [p \in Procs |-> NoQuote]
    /\ polls = [p \in Procs |-> [sleeps |-> 0, requests |-> 0, answers |-> 0, returns |-> 0]]

\* one invocation, any options; the derived target may be left from a run before
\* what a call has given so far
Result(state, kind, quote, value, attempts, puts) ==
    [state |-> state, raised |-> kind, quote |-> quote, value |-> value,
     attempts |-> attempts, puts |-> puts]

Called == Result("called", "none", NoQuote, None, 0, 0)

\* the arguments of the functions that are called on their own
Args(branch_ref, head_ref, primary, label, array, answers) ==
    [branch_ref |-> branch_ref,
     head_ref |-> head_ref,
     primary_build_target |-> primary,
     label |-> label,
     orig_build_meta |-> array,
     answers |-> answers]

NoArgs == Args(<<>>, None, None, <<>>, <<>>, <<>>)

\* main() runs as a whole, no function is called on its own
NoCall ==
    /\ fn = "main"
    /\ fn_args = NoArgs
    /\ fn_result = Called

Init ==
    /\ launched = {1}
    /\ \E a \in ArgsSet : args = [p \in Procs |-> IF p = 1 THEN a ELSE DefaultArgs]
    /\ \E earlier \in {{}} \cup {{t} : t \in EarlierRunTargets(args[1])
                                          \cup SameNameTargets(args[1])} :
          targets = {PrimaryMeta} \cup earlier
    /\ InitLocals
    /\ NoCall

\* ------------------------------------------------------------------------
\* main()
\* ------------------------------------------------------------------------

\* main 576-585: sanitise inputs, UnityCloudClient.__init__
ClientSetup(p) ==
    /\ At(p, "start")
    /\ IF Falsy(args[p].org_id)
       THEN Raise(p, "ConfigurationError")
       ELSE Goto(p, "list_projects")
    /\ UNCHANGED <<calls, launched, args, locals, remote, sent, seen, pollHistory>>

\* main 588-596: client.list_projects()
ListProjects(p) ==
    /\ At(p, "list_projects")
    /\ \E outcome \in GetOutcomes(TRUE) :
          IF outcome # "ok"
          THEN Raise(p, RequestError(outcome))
          ELSE IF args[p].existing_build_number # None /\ ProjectId(p) = None
               THEN Raise(p, "ConfigurationError")
               ELSE Goto(p, "list_build_targets")
    /\ UNCHANGED <<calls, launched, args, locals, remote, sent, seen, pollHistory>>

\* main 599-629: client.list_build_targets(), the checks of the options,
\* get_branch_and_label and UnityCloudBuilder.__init__
ListBuildTargets(p) ==
    /\ At(p, "list_build_targets")
    /\ \E outcome \in GetOutcomes(Falsy(ProjectId(p))
                                  \/ TheValue(ProjectId(p)) = RemoteProject) :
          IF outcome # "ok"
          THEN /\ Raise(p, RequestError(outcome))
               /\ UNCHANGED branch_and_label
          ELSE IF Falsy(ProjectId(p))
          THEN /\ Raise(p, "ConfigurationError")
               /\ UNCHANGED branch_and_label
          ELSE IF Falsy(PrimaryBuildTarget(p))
          THEN /\ Raise(p, "ConfigurationError")
               /\ UNCHANGED branch_and_label
          ELSE IF args[p].github_branch_ref = None
          THEN /\ Raise(p, "AttributeError")
               /\ UNCHANGED branch_and_label
          ELSE IF BranchAndLabelRaises(TheValue(args[p].github_branch_ref),
                                       args[p].github_head_ref)
          THEN /\ Raise(p, "ConfigurationError")
               /\ UNCHANGED branch_and_label
          ELSE /\ branch_and_label' =
                    [branch_and_label EXCEPT ![p] =
                        Some(get_branch_and_label(
                                TheValue(args[p].github_branch_ref),
                                args[p].github_head_ref))]
               /\ Goto(p, "get_build_targetname")
    /\ UNCHANGED <<calls, launched, args, build_target_name, gbtm_name,
                   primary_target_meta, payload,
                   existing_meta, build_number, build_meta,
                   timeout_count, remote, sent, seen, pollHistory>>

\* AfterTargetname without the early return of main 636-640
AfterTargetname_NoListMode(p) ==
    IF args[p].existing_build_number # None
    THEN "poll"
    ELSE "get_build_target_meta"

\* main 633-652: builder.get_build_targetname(), then the choice between
\* listing builds, polling an existing build and reconciling the target
AfterTargetname(p) ==
    IF args[p].allow_new_target = FALSE
    THEN "list_build_numbers"
    ELSE IF args[p].existing_build_number # None
         THEN "poll"
         ELSE "get_build_target_meta"

GetBuildTargetname(p) ==
    /\ At(p, "get_build_targetname")
    /\ LET primary == TheValue(PrimaryBuildTarget(p)) IN
       \E outcome \in GetOutcomes(TargetExists(primary)) :
          IF outcome # "ok"
          THEN /\ Raise(p, RequestError(outcome))
               /\ UNCHANGED <<build_target_name, build_number>>
          ELSE /\ build_target_name' =
                    [build_target_name EXCEPT ![p] =
                        Some(BuilderTargetname(primary,
                                               TheValue(branch_and_label[p]),
                                               TargetMeta(primary)))]
               /\ build_number' =
                    [build_number EXCEPT ![p] =
                        IF AfterTargetname(p) = "poll"
                        THEN args[p].existing_build_number
                        ELSE @]
               /\ Goto(p, AfterTargetname(p))
    /\ UNCHANGED <<calls, launched, args, branch_and_label, gbtm_name,
                   primary_target_meta, payload,
                   existing_meta, build_meta, timeout_count,
                   remote,
                   sent, seen, pollHistory>>

\* main 636-640: allow_new_target == False lists the target's builds and returns
ListBuildNumbers(p) ==
    /\ At(p, "list_build_numbers")
    /\ \E outcome \in GetOutcomes(TargetExists(TheValue(build_target_name[p]))) :
          IF outcome # "ok"
          THEN Raise(p, RequestError(outcome))
          ELSE Exit0(p)
    /\ UNCHANGED <<calls, launched, args, locals, remote, sent, seen, pollHistory>>

\* ------------------------------------------------------------------------
\* Target reconciliation: UnityCloudBuilder.get_build_target_meta
\* ------------------------------------------------------------------------

\* get_build_target_meta 361: self.get_build_targetname()
GetBuildTargetMeta_Name(p) ==
    /\ At(p, "get_build_target_meta")
    /\ LET primary == TheValue(PrimaryBuildTarget(p)) IN
       \E outcome \in GetOutcomes(TargetExists(primary)) :
          IF outcome # "ok"
          THEN /\ Raise(p, RequestError(outcome))
               /\ UNCHANGED gbtm_name
          ELSE /\ gbtm_name' =
                    [gbtm_name EXCEPT ![p] =
                        Some(BuilderTargetname(primary,
                                               TheValue(branch_and_label[p]),
                                               TargetMeta(primary)))]
               /\ Goto(p, "fetch_existing")
    /\ UNCHANGED <<calls, launched, args, branch_and_label, build_target_name,
                   primary_target_meta, payload,
                   existing_meta, build_number, build_meta,
                   timeout_count, remote, sent, seen, pollHistory>>

\* AfterFailedFetch returning to main as if the fetch had succeeded
AfterFailedFetch_SkipCreate(allow_new_target) == "start_build"

\* get_build_target_meta 363-372: where a failed fetch of the target's meta
\* leads (every exception of the fetch is caught)
AfterFailedFetch(allow_new_target) ==
    IF ~allow_new_target THEN "raise" ELSE "create_new_build_target"

\* a fetched target that is created again all the same
AfterFetched_CreateAnyway == "create_new_build_target"

\* get_build_target_meta 364-365 and main 658-661: existing_meta is
\* returned and the build is started
AfterFetched == "start_build"

\* get_build_target_meta 363-372: fetch the target's meta; main 661 follows
\* a normal return
GetBuildTargetMeta_Fetch(p) ==
    /\ At(p, "fetch_existing")
    /\ \E outcome \in GetOutcomes(TargetExists(TheValue(gbtm_name[p]))) :
          IF outcome = "ok"
          THEN /\ existing_meta' =
                    [existing_meta EXCEPT ![p] =
                        Some(TargetMeta(TheValue(gbtm_name[p])))]
               /\ Seen(p, "reconciled")
               /\ Goto(p, AfterFetched)
          ELSE /\ IF AfterFailedFetch(args[p].allow_new_target) = "raise"
                  THEN Raise(p, "PolicyError")
                  ELSE Goto(p, AfterFailedFetch(args[p].allow_new_target))
               /\ Seen(p, "fetch_failed")
               /\ UNCHANGED existing_meta
    /\ UNCHANGED <<calls, launched, args, branch_and_label, build_target_name,
                   gbtm_name, primary_target_meta, payload, build_number,
                   build_meta, timeout_count, remote, sent, pollHistory>>

\* create_new_build_target 382: fetch the primary target's meta
CreateNewBuildTarget_Fetch(p) ==
    /\ At(p, "create_new_build_target")
    /\ LET primary == TheValue(PrimaryBuildTarget(p)) IN
       \E outcome \in GetOutcomes(TargetExists(primary)) :
          IF outcome # "ok"
          THEN /\ Raise(p, RequestError(outcome))
               /\ UNCHANGED primary_target_meta
          ELSE /\ primary_target_meta' =
                    [primary_target_meta EXCEPT ![p] = Some(TargetMeta(primary))]
               /\ Goto(p, "create_post")
    /\ UNCHANGED <<calls, launched, args, branch_and_label, build_target_name,
                   gbtm_name, payload, existing_meta, build_number, build_meta, timeout_count,
                   remote, sent, seen, pollHistory>>

\* create_new_build_target 415: the log line of the name-in-use branch
\* formats new_target_name, a name defined nowhere (the parameter is
\* build_target_name), so evaluating it raises NameError
NameInUseLogLine == "NameError"

\* create_new_build_target 388-419: build the payload, POST it, read the answer
CreateNewBuildTarget_Post(p) ==
    /\ At(p, "create_post")
    /\ LET payload0 == CreationPayload(TheValue(gbtm_name[p]),
                                       TheValue(primary_target_meta[p]),
                                       TheValue(branch_and_label[p]))
       IN /\ primary_target_meta' =
               [primary_target_meta EXCEPT ![p] =
                   Some([TheValue(@) EXCEPT !.settings = payload0.settings])]
          /\ payload' = [payload EXCEPT ![p] = Some(payload0)]
          /\ Sent(p, "create")
          /\ \E answer \in {"processed", "other500", "error", "timeout"} :
               IF answer = "processed" /\ ~TargetExists(payload0.name)
               THEN \* 201: created
                    /\ targets' = targets \cup {TargetFromPayload(payload0)}
                    /\ seen' = [seen EXCEPT ![p] = @ \cup {"created", "reconciled"}]
                    /\ Goto(p, "start_build")
               ELSE IF answer \in {"processed", "other500"}
               THEN \* 500: the body's error field decides
                    LET error == IF answer = "processed"
                                 THEN NameInUse
                                 ELSE "Internal server error"
                    IN IF error = NameInUse
                       THEN /\ Seen(p, "name_in_use")
                            /\ Raise(p, NameInUseLogLine)
                            /\ UNCHANGED targets
                       ELSE /\ Raise(p, "UpstreamError")
                            /\ UNCHANGED <<targets, seen>>
               ELSE /\ Raise(p, RequestError(answer))
                    /\ UNCHANGED <<targets, seen>>
    /\ UNCHANGED <<calls, launched, args, branch_and_label, build_target_name,
                   gbtm_name, existing_meta, build_number, build_meta,
                   timeout_count,
                   builds, pollHistory>>

\* ------------------------------------------------------------------------
\* Build lifecycle
\* ------------------------------------------------------------------------

\* start_build 429: the element of the answer that is read
StartElement_Last(orig_build_meta) == orig_build_meta[Len(orig_build_meta)]

\* start_build 429: build_meta = orig_build_meta[0]
StartElement(orig_build_meta) == orig_build_meta[1]

\* start_build 430-437: the error the exception quotes
StartError(orig_build_meta) ==
    LET error == StartElement(orig_build_meta).error
    IN IF Falsy(error)
       THEN Quote(None, None, Some(orig_build_meta))
       ELSE Quote(None, error, None)

\* start_build 429-441 on the array of an accepted POST
start_build(orig_build_meta) ==
    LET build_meta0 == StartElement(orig_build_meta)
    IN [raises |-> build_meta0.build = None,
        error |-> StartError(orig_build_meta),
        build_number |-> build_meta0.build]

\* a failed build start that sends the POST again
AfterFailedStart_Retry(p, kind, what) ==
    UNCHANGED <<pc, exit_code, raised, message>>

\* start_build 428, 437 and main 661: nothing catches the exception of a
\* failed build start
AfterFailedStart(p, kind, what) == RaiseWith(p, kind, what)

\* start_build 421-441, called by main 661 with main's build_target_name
StartBuild(p) ==
    /\ At(p, "start_build")
    /\ Sent(p, "start")
    /\ \E answer \in IF TargetExists(TheValue(build_target_name[p]))
                     THEN {"accepted", "error", "timeout"}
                     ELSE {"error", "timeout"} :
          IF answer # "accepted"
          THEN /\ AfterFailedStart(p, RequestError(answer), NoQuote)
               /\ UNCHANGED <<build_number, timeout_count, builds, seen>>
          ELSE \E orig_build_meta \in StartArrays(builds + 1) :
                  /\ IF start_build(orig_build_meta).raises
                     THEN /\ AfterFailedStart(p, "UpstreamError",
                                              start_build(orig_build_meta).error)
                          /\ UNCHANGED <<build_number, timeout_count, builds,
                                         seen>>
                     ELSE /\ builds' = builds + 1
                          /\ build_number' =
                               [build_number EXCEPT ![p] =
                                   start_build(orig_build_meta).build_number]
                          /\ timeout_count' = [timeout_count EXCEPT ![p] = 0]
                          /\ Seen(p, "build_started")
                          /\ Goto(p, "poll")
    /\ UNCHANGED <<calls, launched, args, branch_and_label, build_target_name,
                   gbtm_name, primary_target_meta, payload,
                   existing_meta, build_meta, targets,
                   last_poll, absorbed, polls>>

\* main 666-680: what follows the return of wait_for_successfull_build
AfterPoll(p) ==
    IF args[p].download_binary
    THEN Goto(p, "download")
    ELSE IF args[p].create_share
         THEN Goto(p, "share")
         ELSE Exit0(p)

\* wait_for_successfull_build 501-505: the counter after a request timeout
AfterTimeout(count) == count + 1

\* AfterResponse without the reset of line 499
AfterResponse_NoReset(count) == count

\* wait_for_successfull_build 497-499: the counter after a fetch that did
\* not raise
AfterResponse(count) == 0

\* the number of status requests of one invocation that are counted
MaxPolls == 6

\* a counter of the history that stops counting at MaxPolls
Counted(n) == Min(n + 1, MaxPolls)

\* keys of the build metadata the remote system answers with
BuildKey == <<"b", "u", "i", "l", "d">>
BuildStatusKey == <<"b", "u", "i", "l", "d", "S", "t", "a", "t", "u", "s">>
LinksKey == <<"l", "i", "n", "k", "s">>
PlatformKey == <<"p", "l", "a", "t", "f", "o", "r", "m">>
TotalTimeInSecondsKey ==
    <<"t", "o", "t", "a", "l", "T", "i", "m", "e",
      "I", "n", "S", "e", "c", "o", "n", "d", "s">>

\* UnityCloudClient.get_build_meta 225-229: the dict answering a status
\* request for build n
ResponseMeta(n, status) ==
    [key \in {BuildKey, BuildStatusKey, LinksKey, PlatformKey,
              TotalTimeInSecondsKey} |->
        CASE key = BuildKey -> Some(n)
          [] key = BuildStatusKey -> Some(status)
          [] key = LinksKey -> Some("download_primary")
          [] key = PlatformKey -> Some("standaloneosxuniversal")
          [] OTHER -> Some("90.5")]

\* is_useful_build_meta_key 479-485
is_useful_build_meta_key(key) ==
    \/ Contains(key, <<"I", "n", "S", "e", "c", "o", "n", "d", "s">>)
    \/ Contains(key, <<"t", "a", "t", "u", "s">>)

\* wait_for_successfull_build 512-515: the entries that are logged
useful_meta(build_meta0) ==
    [key \in {k \in DOMAIN build_meta0 : is_useful_build_meta_key(k)} |->
        build_meta0[key]]

\* what the loop returns if it returns what it logs
ReturnedMeta_OnlyUseful(build_meta0) == useful_meta(build_meta0)

\* wait_for_successfull_build 519: return build_meta
ReturnedMeta(build_meta0) == build_meta0

\* failed_statuses without the American spelling
failed_statuses_NoCanceled == {"failure", "cancelled", "unknown"}

\* wait_for_successfull_build 508
failed_statuses == {"failure", "canceled", "cancelled", "unknown"}

\* wait_for_successfull_build 509
success_statuses == {"success"}

\* wait_for_successfull_build 494-505: an iteration sleeps once, sends one
\* status request and is answered or not (an error status, a timeout)
PollIteration(n, outcome) ==
    [sleeps |-> Counted(n.sleeps),
     requests |-> Counted(n.requests),
     answers |-> IF outcome = "ok" THEN Counted(n.answers) ELSE n.answers,
     returns |-> n.returns]

\* wait_for_successfull_build 519, 526: the function returns to main
PollReturn(n) == [n EXCEPT !.returns = @ + 1]

\* wait_for_successfull_build 493-525: one iteration of the loop
Poll(p) ==
    /\ At(p, "poll")
    /\ timeout_count[p] < max_timeouts_in_a_row
    /\ SentPoll(p)
    /\ \E outcome \in GetOutcomes(TRUE) :
          \/ /\ outcome = "timeout"
             /\ timeout_count' =
                  [timeout_count EXCEPT ![p] = AfterTimeout(@)]
             /\ last_poll' = [last_poll EXCEPT ![p] = "timeout"]
             /\ polls' = [polls EXCEPT ![p] = PollIteration(@, outcome)]
             /\ UNCHANGED <<pc, exit_code, raised, message, build_meta,
                            absorbed, seen>>
          \/ /\ outcome = "error"
             /\ Raise(p, "UpstreamError")
             /\ last_poll' = [last_poll EXCEPT ![p] = "error"]
             /\ polls' = [polls EXCEPT ![p] = PollIteration(@, outcome)]
             /\ UNCHANGED <<timeout_count, build_meta, absorbed, seen>>
          \/ /\ outcome = "ok"
             /\ \E status \in RemoteStatuses :
                  LET build_meta0 ==
                          ResponseMeta(TheValue(build_number[p]), status)
                      build_status == TheValue(build_meta0[BuildStatusKey])
                  IN
                  /\ timeout_count' =
                       [timeout_count EXCEPT ![p] = AfterResponse(@)]
                  /\ last_poll' = [last_poll EXCEPT ![p] = build_status]
                  /\ absorbed' = [absorbed EXCEPT ![p] = timeout_count[p]]
                  /\ IF build_status \in success_statuses
                     THEN /\ build_meta' =
                               [build_meta EXCEPT ![p] =
                                   Some(ReturnedMeta(build_meta0))]
                          /\ polls' =
                               [polls EXCEPT ![p] =
                                   PollReturn(PollIteration(@, outcome))]
                          /\ Seen(p, "success")
                          /\ AfterPoll(p)
                     ELSE IF build_status \in failed_statuses
                     THEN /\ RaiseWith(p, "BuildFailedError",
                                       Quote(Some(build_status), None, None))
                          /\ polls' =
                               [polls EXCEPT ![p] = PollIteration(@, outcome)]
                          /\ UNCHANGED <<build_meta, seen>>
                     ELSE /\ polls' =
                               [polls EXCEPT ![p] = PollIteration(@, outcome)]
                          /\ UNCHANGED <<pc, exit_code, raised, message,
                                         build_meta, seen>>
    /\ UNCHANGED <<calls, launched, args, branch_and_label, build_target_name,
                   gbtm_name, primary_target_meta, payload,
                   existing_meta, build_number,
                   remote>>

\* wait_for_successfull_build 493, 526: the loop condition fails after
\* max_timeouts_in_a_row timeouts and the function falls off its end,
\* returning None to main 666
PollLoopExit(p) ==
    /\ At(p, "poll")
    /\ ~(timeout_count[p] < max_timeouts_in_a_row)
    /\ build_meta' = [build_meta EXCEPT ![p] = None]
    /\ polls' = [polls EXCEPT ![p] = PollReturn(@)]
    /\ AfterPoll(p)
    /\ UNCHANGED <<calls, launched, args, branch_and_label, build_target_name,
                   gbtm_name, primary_target_meta, payload,
                   existing_meta, build_number,
                   timeout_count, remote, sent, seen, last_poll, absorbed>>

\* main 669-672: download_file_to_workspace(build_meta["links"]...)
DownloadFile(p) ==
    /\ At(p, "download")
    /\ IF build_meta[p] = None
       THEN \* None is not subscriptable
            /\ Raise(p, "TypeError")
            /\ UNCHANGED sent
       ELSE /\ Sent(p, "download")
            /\ \E outcome \in {"ok", "error"} :
                 IF outcome # "ok"
                 THEN Raise(p, "UpstreamError")
                 ELSE IF args[p].create_share
                      THEN Goto(p, "share")
                      ELSE Exit0(p)
    /\ UNCHANGED <<calls, launched, args, locals, remote, seen, pollHistory>>

\* main 675-680: client.create_share_url(), then sys.exit(0)
CreateShareUrl(p) ==
    /\ At(p, "share")
    /\ Sent(p, "share")
    /\ \E outcome \in GetOutcomes(TRUE) :
          IF outcome # "ok"
          THEN Raise(p, RequestError(outcome))
          ELSE Exit0(p)
    /\ UNCHANGED <<calls, launched, args, locals, remote, seen, pollHistory>>

Next ==
    \E p \in Procs :
       \/ ClientSetup(p)
       \/ ListProjects(p)
       \/ ListBuildTargets(p)
       \/ GetBuildTargetname(p)
       \/ ListBuildNumbers(p)
       \/ GetBuildTargetMeta_Name(p)
       \/ GetBuildTargetMeta_Fetch(p)
       \/ CreateNewBuildTarget_Fetch(p)
       \/ CreateNewBuildTarget_Post(p)
       \/ StartBuild(p)
       \/ Poll(p)
       \/ PollLoopExit(p)
       \/ DownloadFile(p)
       \/ CreateShareUrl(p)

Spec == Init /\ [][Next]_vars

\* the options with which main() gets past its checks of the options, for
\* a tag or a pull request
LiveArgs ==
    {a \in ArgsSet :
        /\ a.org_id = DefaultArgs.org_id
        /\ a.project_id = DefaultArgs.project_id
        /\ a.primary_build_target = DefaultArgs.primary_build_target
        /\ a.github_head_ref = DefaultArgs.github_head_ref
        /\ a.github_branch_ref \in
              {DefaultArgs.github_branch_ref, Some(RefsTags \o <<"v", "1">>)}
        /\ a.create_share = a.download_binary}

InitLive ==
    /\ launched = {1}
    /\ \E a \in LiveArgs : args = [p \in Procs |-> IF p = 1 THEN a ELSE DefaultArgs]
    /\ \E earlier \in {{}} \cup {{t} : t \in EarlierRunTargets(args[1])} :
          targets = {PrimaryMeta} \cup earlier
    /\ InitLocals
    /\ NoCall

\* a status request that the remote system answers with a terminal status
TerminalAnswer ==
    \E p \in Procs :
       /\ Poll(p)
       /\ last_poll'[p] \in {"success", "failure", "canceled", "unknown"}

\* main() runs on until it exits, and the remote system does not withhold
\* the terminal status for ever from a run that goes on asking
SpecLive ==
    InitLive /\ [][Next]_vars /\ WF_vars(Next) /\ SF_vars(TerminalAnswer)

\* two concurrent invocations for the same ref and the same primary target;
\* the derived target does not exist yet
RaceArgs ==
    {a \in ArgsSet :
        /\ a.org_id = DefaultArgs.org_id
        /\ a.project_id = DefaultArgs.project_id
        /\ a.primary_build_target = DefaultArgs.primary_build_target
        /\ a.github_branch_ref = DefaultArgs.github_branch_ref
        /\ a.github_head_ref = DefaultArgs.github_head_ref
        /\ a.create_share = a.download_binary
        /\ (a.existing_build_number # None) = a.download_binary}

InitRace ==
    /\ launched = Procs
    /\ \E a \in RaceArgs : args = [p \in Procs |-> IF p = 1 THEN DefaultArgs ELSE a]
    /\ targets = {PrimaryMeta}
    /\ InitLocals
    /\ NoCall

\* main 576-662 of both invocations: the race is over the build target,
\* so it is followed until each invocation has started its build
NextRace ==
    \E p \in Procs :
       \/ ClientSetup(p)
       \/ ListProjects(p)
       \/ ListBuildTargets(p)
       \/ GetBuildTargetname(p)
       \/ ListBuildNumbers(p)
       \/ GetBuildTargetMeta_Name(p)
       \/ GetBuildTargetMeta_Fetch(p)
       \/ CreateNewBuildTarget_Fetch(p)
       \/ CreateNewBuildTarget_Post(p)
       \/ StartBuild(p)

SpecRace == InitRace /\ [][NextRace]_vars

\* ------------------------------------------------------------------------
\* The functions of action.py called on their own
\* ------------------------------------------------------------------------

\* the longest label a call is given
MaxLabelLen == 70

Repeat(c, n) == [i \in 1..n |-> c]

\* refs whose name holds the text of a prefix again
NestedRefs ==
    { RefsHeads \o <<"a", "/">> \o RefsTags \o <<"b">>,
      RefsHeads \o RefsHeads \o Main,
      RefsTags \o RefsPull \o <<"1">>,
      RefsTags \o <<"v", "1", "/">> \o RefsHeads }

\* branch_ref of a direct call of get_branch_and_label
CallBranchRefs ==
    {TheValue(ref) : ref \in BranchRefs \ {None}}
    \cup NestedRefs
    \cup {Main, RefsPull \o <<"7">> \o MergeSuffix}

\* head_ref of a direct call of get_branch_and_label
CallHeadRefs == HeadRefs \cup {Some(<<>>), Some(Main)}

\* primary_build_target of a direct call of get_build_targetname
CallPrimaryTargets ==
    { None, Some(<<>>), Some(Mac), Some(Lower(Mac)),
      Some(<<"i", "O", "S", "_", "1">>),
      Some(<<"w", "e", "b", ".", "g", "l">>) }

\* labels of a direct call of get_build_targetname
CallLabels ==
    {Repeat(c, n) : c \in {"a", "Z", "/"}, n \in 0..MaxLabelLen}
    \cup {get_branch_and_label(ref, Some(RefsHeads \o FeatureX)).label :
             ref \in CallBranchRefs}
    \cup {<<"a", "/", "/", "B", "_", "_", "c", " ">>}

\* tenacity.stop_after_attempt(10)
stop_after_attempt == 10

\* resp.status_code == 200
StatusOK == 200

\* a status_code other than 200
StatusUnavailable == 503

\* what the remote system would answer to the PUT of each attempt
PutAnswers == [1..stop_after_attempt -> {StatusOK, StatusUnavailable}]

InitCalls ==
    /\ launched = {}
    /\ args = [p \in Procs |-> DefaultArgs]
    /\ targets = {PrimaryMeta}
    /\ InitLocals
    /\ fn_result = Called
    /\ \/ /\ fn = "get_branch_and_label"
          /\ \E branch_ref \in CallBranchRefs, head_ref \in CallHeadRefs :
                fn_args = Args(branch_ref, head_ref, None, <<>>, <<>>, <<>>)
       \/ /\ fn = "get_build_targetname"
          /\ \E primary \in CallPrimaryTargets, label \in CallLabels :
                fn_args = Args(<<>>, None, primary, label, <<>>, <<>>)
       \/ /\ fn = "start_build"
          /\ \E orig_build_meta \in StartArrays(builds + 1) :
                fn_args = Args(<<>>, None, None, <<>>, orig_build_meta, <<>>)
       \/ /\ fn = "set_build_target_env_var"
          /\ \E answers \in PutAnswers :
                fn_args = Args(<<>>, None, None, <<>>, <<>>, answers)

Calling(name) == fn = name /\ fn_result.state = "called"

\* get_branch_and_label 88-115
CallGetBranchAndLabel ==
    /\ Calling("get_branch_and_label")
    /\ fn_result' =
         IF BranchAndLabelRaises(fn_args.branch_ref, fn_args.head_ref)
         THEN Result("raised", "ConfigurationError", NoQuote, None, 0, 0)
         ELSE Result("returned", "none", NoQuote,
                     Some(get_branch_and_label(fn_args.branch_ref,
                                               fn_args.head_ref)), 0, 0)
    /\ UNCHANGED <<fn, fn_args, launched, args, pc, exit_code, raised,
                   message, locals, remote, sent, seen, pollHistory>>

\* get_build_targetname 123-142
CallGetBuildTargetname ==
    /\ Calling("get_build_targetname")
    /\ fn_result' =
         IF BuildTargetnameRaises(fn_args.primary_build_target)
         THEN Result("raised", "ConfigurationError", NoQuote, None, 0, 0)
         ELSE Result("returned", "none", NoQuote,
                     Some(get_build_targetname(
                            TheValue(fn_args.primary_build_target),
                            [branch |-> Main, label |-> fn_args.label])),
                     0, 0)
    /\ UNCHANGED <<fn, fn_args, launched, args, pc, exit_code, raised,
                   message, locals, remote, sent, seen, pollHistory>>

\* start_build 429-441, the POST of line 428 answered 202 with the array
CallStartBuild ==
    /\ Calling("start_build")
    /\ LET result == start_build(fn_args.orig_build_meta)
       IN fn_result' =
            IF result.raises
            THEN Result("raised", "UpstreamError", result.error, None, 0, 0)
            ELSE Result("returned", "none", NoQuote, result.build_number, 0, 0)
    /\ UNCHANGED <<fn, fn_args, launched, args, pc, exit_code, raised,
                   message, locals, remote, sent, seen, pollHistory>>

\* UnityCloudBuilder.__init__ 314-317: the attributes a builder has
BuilderAttributes ==
    {"project_id", "primary_build_target", "branch_and_label", "client"}

\* set_build_target_env_var 347-355: one attempt of the body; the URL is
\* formatted from self.api_base_url and self.org_id before the PUT is sent
EnvVarAttempt(answer) ==
    IF ~({"api_base_url", "org_id", "project_id"} \subseteq BuilderAttributes)
    THEN [sent |-> FALSE, outcome |-> "AttributeError"]
    ELSE IF answer = StatusOK
         THEN [sent |-> TRUE, outcome |-> "return"]
         ELSE [sent |-> TRUE, outcome |-> "Exception"]

\* set_build_target_env_var 334-355 under tenacity.retry: an attempt, and
\* the stop after the tenth that failed
SetBuildTargetEnvVar ==
    /\ Calling("set_build_target_env_var")
    /\ LET attempt_number == fn_result.attempts + 1
           attempt == EnvVarAttempt(fn_args.answers[attempt_number])
           puts == IF attempt.sent
                   THEN fn_result.puts + 1 ELSE fn_result.puts
       IN fn_result' =
            IF attempt.outcome = "return"
            THEN Result("returned", "none", NoQuote, None,
                        attempt_number, puts)
            ELSE IF attempt_number >= stop_after_attempt
            THEN Result("raised", "RetryError", NoQuote, None,
                        attempt_number, puts)
            ELSE Result("called", attempt.outcome, NoQuote, None,
                        attempt_number, puts)
    /\ UNCHANGED <<fn, fn_args, launched, args, pc, exit_code, raised,
                   message, locals, remote, sent, seen, pollHistory>>

NextCalls ==
    \/ CallGetBranchAndLabel
    \/ CallGetBuildTargetname
    \/ CallStartBuild
    \/ SetBuildTargetEnvVar

SpecCalls == InitCalls /\ [][NextCalls]_vars

\* ------------------------------------------------------------------------
\* Properties
\* ------------------------------------------------------------------------

TerminalStatuses == success_statuses \cup failed_statuses

NonTerminalStatuses == RemoteStatuses \ TerminalStatuses

\* the primary target tracks the branch the invocation resolved
OnPrimaryBranch(p) ==
    /\ branch_and_label[p] # None
    /\ TheValue(branch_and_label[p]).branch = PrimaryMeta.settings.scm.branch

\* the invocation resolved a derived target name (the branches differ)
OnDerivedTarget(p) ==
    /\ build_target_name[p] # None
    /\ TheValue(build_target_name[p]) # TheValue(PrimaryBuildTarget(p))

\* C1: six consecutive timeouts of the status request make the poll loop
\* raise an unavailability error, and the loop never returns normally
\* without a terminal build status having been seen.
C1_SixTimeoutsRaiseUnavailable ==
    \A p \in Procs :
       /\ (timeout_count[p] = max_timeouts_in_a_row /\ pc[p] # "poll")
             => raised[p] = "UnavailableError"
       /\ (sent[p].poll /\ pc[p] \in {"download", "share"})
             => last_poll[p] \in TerminalStatuses

\* C2: the artifact download request and the share-link request are sent
\* only after a status poll of the run returned buildStatus success.
C2_DownloadAndShareOnlyAfterSuccess ==
    \A p \in Procs :
       (sent[p].download > 0 \/ sent[p].share > 0) => "success" \in seen[p]

\* C3: when the creation POST is answered 500 with the exact name-in-use
\* error, create_new_build_target returns without raising, the run goes on
\* to start the build, and no further creation POST is sent.
C3_NameInUseIsReuse ==
    \A p \in Procs :
       "name_in_use" \in seen[p] =>
          /\ "reconciled" \in seen[p]
          /\ raised[p] # "NameError"
          /\ sent[p].create = 1

\* C4: of two concurrent invocations for the same ref and primary target,
\* at most one creates the derived target, the other sees the name-in-use
\* answer and recovers by reuse, and both finish reconciliation on the same
\* derived name without a fatal error.
C4_ConcurrentCreatorsConverge ==
    /\ Cardinality({p \in Procs : "created" \in seen[p]}) <= 1
    /\ \A p \in Procs :
          "name_in_use" \in seen[p] =>
             /\ "reconciled" \in seen[p]
             /\ pc[p] = "exited" => sent[p].start > 0
    /\ \A p, q \in Procs :
          ("created" \in seen[p] /\ "name_in_use" \in seen[q])
             => gbtm_name[p] = gbtm_name[q]

\* C5 (as stated): with allow_new_target false and a primary target on
\* another branch, the run ends by raising the policy error, unless a
\* request itself failed, and sends no creation POST.
C5_PolicyErrorWhenNotAllowed ==
    \A p \in Procs :
       (/\ args[p].allow_new_target = FALSE
        /\ OnDerivedTarget(p)
        /\ pc[p] = "exited"
        /\ raised[p] \notin {"Timeout", "UpstreamError"})
          => (raised[p] = "PolicyError" /\ sent[p].create = 0)

\* C5 (amended): with allow_new_target false the run sends no creation POST
\* and no other mutating request and never reconciles, so it never raises
\* the policy error: once the target name is resolved it lists the target's
\* builds and ends, with exit code 0 when the listing is answered and with
\* the request's error otherwise.
C5_NoMutationWhenNotAllowed ==
    \A p \in Procs :
       args[p].allow_new_target = FALSE =>
          /\ sent[p].create = 0 /\ sent[p].start = 0 /\ sent[p].share = 0
          /\ ~sent[p].poll
          /\ raised[p] # "PolicyError"
          /\ "reconciled" \notin seen[p]
          /\ (OnDerivedTarget(p) /\ pc[p] = "exited") =>
                \/ exit_code[p] = 0 /\ raised[p] = "none"
                \/ exit_code[p] = 1 /\ raised[p] \in {"Timeout", "UpstreamError"}

\* C5 witness: a run with allow_new_target false and a derived target name
\* that has listed the builds and ended with exit code 0
C5_Witness ==
    \E p \in Procs :
       /\ args[p].allow_new_target = FALSE
       /\ OnDerivedTarget(p)
       /\ pc[p] = "exited"
       /\ exit_code[p] = 0

\* C6: when the primary target's branch equals the resolved clone branch
\* the run never sends a target-creation POST, whatever the fetches of the
\* target's metadata answer.
C6_NoCreationOnPrimaryBranch ==
    \A p \in Procs : OnPrimaryBranch(p) => sent[p].create = 0

\* C7: for a pull-request ref refs/pull/N/merge with head ref refs/heads/B
\* get_branch_and_label returns branch B, never the merge ref, and a label
\* with a pull-request indicator and without the substring "/merge".
C7_PullRequestBranchAndLabel ==
    \A p \in Procs :
       (/\ branch_and_label[p] # None
        /\ StartsWith(TheValue(args[p].github_branch_ref), RefsPull)
        /\ ~Falsy(args[p].github_head_ref)
        /\ StartsWith(TheValue(args[p].github_head_ref), RefsHeads))
          => LET bl == TheValue(branch_and_label[p])
                 head == TheValue(args[p].github_head_ref)
             IN /\ bl.branch = SubSeq(head, Len(RefsHeads) + 1, Len(head))
                /\ bl.branch # TheValue(args[p].github_branch_ref)
                /\ Contains(bl.label, SubSeq(PullRequestLabel, 1, 12))
                /\ ~Contains(bl.label, MergeSuffix)

\* C8: a run that polled a build ends with exit code 0 only when a poll
\* returned status success, and a run that met six consecutive poll
\* timeouts (or any other fatal condition) ends with a non-zero exit code.
C8_ExitZeroOnlyOnSuccess ==
    \A p \in Procs :
       pc[p] = "exited" =>
          /\ (exit_code[p] = 0 /\ sent[p].poll) => "success" \in seen[p]
          /\ timeout_count[p] = max_timeouts_in_a_row => exit_code[p] # 0
          /\ raised[p] # "none" => exit_code[p] # 0

\* C9 (as stated): no build-start POST is sent before reconciliation has
\* returned, and no status poll is sent before a build-start POST of the
\* same run has returned a build number.
C9_StartBeforePoll ==
    \A p \in Procs :
       /\ sent[p].start > 0 => "reconciled" \in seen[p]
       /\ sent[p].poll => "build_started" \in seen[p]

\* C9 (amended): no build-start POST is sent before reconciliation has
\* returned; a status poll is sent only after a build-start POST of the
\* same run has returned the build number polled, except when an existing
\* build number was supplied: then the run polls that number after
\* resolving the target name, with no reconciliation and no build-start.
C9_StartBeforePollUnlessExisting ==
    \A p \in Procs :
       /\ sent[p].start > 0 => "reconciled" \in seen[p]
       /\ "build_started" \in seen[p] => sent[p].start = 1
       /\ sent[p].poll =>
             /\ build_target_name[p] # None
             /\ build_number[p] # None
             /\ IF args[p].existing_build_number = None
                THEN "build_started" \in seen[p]
                ELSE /\ build_number[p] = args[p].existing_build_number
                     /\ sent[p].start = 0
                     /\ sent[p].create = 0
                     /\ "reconciled" \notin seen[p]

\* C9 witness: a run that reconciled, started a build and is polling it
C9_Witness ==
    \E p \in Procs :
       /\ sent[p].poll
       /\ {"reconciled", "build_started"} \subseteq seen[p]
       /\ args[p].existing_build_number = None

\* C10: in the poll loop a request timeout changes only the counter of
\* consecutive timeouts (by one), every answered status request resets the
\* counter to zero, and a non-terminal answer after up to five timeouts
\* leaves the loop polling, without an exception.
C10_TimeoutsAbsorbed ==
    [][\A p \in Procs :
          pc[p] = "poll" =>
             /\ timeout_count'[p] > timeout_count[p] =>
                   /\ timeout_count'[p] = timeout_count[p] + 1
                   /\ last_poll'[p] = "timeout"
                   /\ pc'[p] = "poll"
                   /\ UNCHANGED <<exit_code, raised, build_number, build_meta,
                                  build_target_name, targets, builds, seen>>
             /\ last_poll'[p] = "timeout" =>
                   \/ timeout_count'[p] = timeout_count[p] + 1
                   \/ UNCHANGED <<timeout_count, last_poll>>
             /\ last_poll'[p] \in RemoteStatuses => timeout_count'[p] = 0
             /\ last_poll'[p] \in NonTerminalStatuses =>
                   /\ pc'[p] = "poll"
                   /\ raised'[p] = "none"
                   /\ absorbed'[p] < max_timeouts_in_a_row]_vars

\* C10 witness: five timeouts in a row, then a non-terminal answer, and the
\* loop polls on with the counter at zero
C10_Witness ==
    \E p \in Procs :
       /\ pc[p] = "poll"
       /\ absorbed[p] = max_timeouts_in_a_row - 1
       /\ last_poll[p] \in NonTerminalStatuses
       /\ timeout_count[p] = 0

\* C11: the first answer whose buildStatus is failure, canceled or unknown
\* ends the poll loop with a build-failed error that carries that status,
\* and no status request is sent after it.
C11_FirstFailureRaises ==
    [][\A p \in Procs :
          /\ last_poll'[p] \in {"failure", "canceled", "unknown"} =>
                /\ pc'[p] = "exited"
                /\ raised'[p] = "BuildFailedError"
                /\ message'[p].status = Some(last_poll'[p])
          /\ last_poll[p] \in {"failure", "canceled", "unknown"} =>
                /\ polls'[p] = polls[p]
                /\ last_poll'[p] = last_poll[p]]_vars

\* C11 witness: non-terminal answers, then canceled, and the invocation
\* has ended with the build-failed error
C11_Witness ==
    \E p \in Procs :
       /\ last_poll[p] = "canceled"
       /\ polls[p].answers > 1
       /\ raised[p] = "BuildFailedError"
       /\ message[p].status = Some("canceled")

\* C12 as stated: while every status request was answered, with statuses
\* outside {success, failure, canceled, unknown} and then success, the loop
\* keeps polling through each of them (one sleep and one request per
\* answer) and returns exactly once, the whole dict of the success answer,
\* without an exception.
C12_RunningUntilSuccess ==
    [][\A p \in Procs :
          (/\ polls[p].requests < MaxPolls
           /\ polls'[p] # polls[p]
           /\ polls'[p].answers = polls'[p].requests) =>
             /\ polls'[p].sleeps = polls'[p].requests
             /\ polls'[p].requests = polls[p].requests + 1
             /\ last_poll'[p] \in RemoteStatuses
             /\ last_poll'[p] \notin
                   {"success", "failure", "canceled", "unknown"} =>
                   /\ pc'[p] = "poll"
                   /\ raised'[p] = "none"
                   /\ polls'[p].returns = 0
             /\ last_poll'[p] = "success" =>
                   /\ pc'[p] # "poll"
                   /\ raised'[p] = "none"
                   /\ exit_code'[p] # 1
                   /\ polls'[p].returns = 1
                   /\ build_meta'[p] =
                        Some(ResponseMeta(TheValue(build_number[p]),
                                          "success"))]_vars

\* C12 with the statuses the loop treats as failed: every answer that is
\* not success, failure, canceled, cancelled or unknown keeps the loop
\* polling (one sleep and one request per answer), and the success answer
\* makes it return exactly once, the whole dict of that answer, without an
\* exception.
C12_RunningUntilSuccessOrFailed ==
    [][\A p \in Procs :
          (/\ polls[p].requests < MaxPolls
           /\ polls'[p] # polls[p]
           /\ polls'[p].answers = polls'[p].requests) =>
             /\ polls'[p].sleeps = polls'[p].requests
             /\ polls'[p].requests = polls[p].requests + 1
             /\ last_poll'[p] \in RemoteStatuses
             /\ last_poll'[p] \notin
                   {"success", "failure", "canceled", "cancelled",
                    "unknown"} =>
                   /\ pc'[p] = "poll"
                   /\ raised'[p] = "none"
                   /\ polls'[p].returns = 0
             /\ last_poll'[p] = "success" =>
                   /\ pc'[p] # "poll"
                   /\ raised'[p] = "none"
                   /\ exit_code'[p] # 1
                   /\ polls'[p].returns = 1
                   /\ build_meta'[p] =
                        Some(ResponseMeta(TheValue(build_number[p]),
                                          "success"))]_vars

\* C12 witness: three non-terminal answers, then success, and the loop has
\* returned the whole dict once
C12_Witness ==
    \E p \in Procs :
       /\ last_poll[p] = "success"
       /\ polls[p].answers = polls[p].requests
       /\ polls[p].requests > 3
       /\ polls[p].returns = 1
       /\ build_meta[p] # None
       /\ DOMAIN TheValue(build_meta[p]) =
             {BuildKey, BuildStatusKey, LinksKey, PlatformKey,
              TotalTimeInSecondsKey}

\* C13: whatever primary target id and label get_build_targetname is
\* called with, the name it returns has no character outside [0-9a-z-].
C13_NameCharacters ==
    (fn = "get_build_targetname" /\ fn_result.state = "returned") =>
       \A i \in DOMAIN TheValue(fn_result.value) :
          TheValue(fn_result.value)[i] \in
             Digits \cup Range(LowerCase) \cup {"-"}

\* C14: whatever primary target id and label get_build_targetname is
\* called with, the name it returns is at most 64 characters long.
C14_NameLength ==
    (fn = "get_build_targetname" /\ fn_result.state = "returned") =>
       Len(TheValue(fn_result.value)) <= 64

\* C14 witness: a label longer than 64 characters has been turned into a
\* name, and the name was cut
C14_Witness ==
    /\ fn = "get_build_targetname"
    /\ fn_result.state = "returned"
    /\ Len(fn_args.label) > 64
    /\ Len(TheValue(fn_result.value)) < Len(fn_args.label)

\* C15: for a ref refs/tags/X or refs/heads/X, the branch that
\* get_branch_and_label returns is X, the ref without its leading prefix,
\* also when X holds the text of a prefix itself.
C15_BranchIsRefWithoutPrefix ==
    (fn = "get_branch_and_label" /\ fn_result.state # "called") =>
       \A prefix \in {RefsTags, RefsHeads} :
          StartsWith(fn_args.branch_ref, prefix) =>
             /\ fn_result.state = "returned"
             /\ TheValue(fn_result.value).branch =
                   SubSeq(fn_args.branch_ref, Len(prefix) + 1,
                          Len(fn_args.branch_ref))

\* C16: called with a ref that starts with refs/pull/ and a head ref that
\* is missing or empty, get_branch_and_label raises the configuration
\* error and returns nothing.
C16_PullRequestNeedsHeadRef ==
    (/\ fn = "get_branch_and_label"
     /\ fn_result.state # "called"
     /\ Len(fn_args.branch_ref) >= Len(RefsPull)
     /\ SubSeq(fn_args.branch_ref, 1, Len(RefsPull)) = RefsPull
     /\ fn_args.head_ref \in {None, Some(<<>>)}) =>
       /\ fn_result.state = "raised"
       /\ fn_result.raised = "ConfigurationError"
       /\ fn_result.value = None

\* C16 witness: the call with a pull-request ref and an empty head ref has
\* raised
C16_Witness ==
    /\ fn = "get_branch_and_label"
    /\ Len(fn_args.branch_ref) >= Len(RefsPull)
    /\ SubSeq(fn_args.branch_ref, 1, Len(RefsPull)) = RefsPull
    /\ fn_args.head_ref = Some(<<>>)
    /\ fn_result.state = "raised"

\* C17: a failed remote call other than a poll timeout, the fetch of a
\* build target's meta during reconciliation included, ends the run with
\* exit code 1, so that no remote call follows it.
C17_RemoteFailuresAreFatal ==
    \A p \in Procs :
       (\/ "fetch_failed" \in seen[p]
        \/ last_poll[p] = "error"
        \/ raised[p] = "Timeout") =>
          /\ pc[p] = "exited"
          /\ exit_code[p] = 1

\* C18: set_build_target_env_var returns exactly when the remote system
\* answers 200 to one of the ten attempts, at the first such attempt, and
\* otherwise ends after the tenth attempt with the retry error.
C18_EnvVarSetWhenAnswered200 ==
    (fn = "set_build_target_env_var" /\ fn_result.state # "called") =>
       LET ok == {n \in 1..10 : fn_args.answers[n] = 200}
       IN /\ fn_result.state = "returned" <=> ok # {}
          /\ fn_result.state = "returned" =>
                /\ fn_result.attempts \in ok
                /\ \A n \in ok : fn_result.attempts <= n
          /\ fn_result.state = "raised" =>
                /\ fn_result.raised = "RetryError"
                /\ fn_result.attempts = 10

\* C19: start_build reads the first element of the answered array only:
\* with a build field in it the build number is returned, error field or
\* not; without one the upstream error is raised, quoting the element's
\* error if it has a non-empty one and the whole array otherwise.
C19_FirstElementDecides ==
    (fn = "start_build" /\ fn_result.state # "called") =>
       LET first == fn_args.orig_build_meta[1]
       IN /\ first.build # None =>
                /\ fn_result.state = "returned"
                /\ fn_result.value = first.build
          /\ first.build = None =>
                /\ fn_result.state = "raised"
                /\ fn_result.raised = "UpstreamError"
                /\ fn_result.quote =
                     IF first.error \in {None, Some(<<>>)}
                     THEN Quote(None, None, Some(fn_args.orig_build_meta))
                     ELSE Quote(None, first.error, None)

\* C19 witness: the first element has a build number and an error, the
\* second has neither a build number nor the same error, and the build
\* number of the first has been returned
C19_Witness ==
    /\ fn = "start_build"
    /\ fn_result.state = "returned"
    /\ Len(fn_args.orig_build_meta) > 1
    /\ fn_args.orig_build_meta[1].error = Some(NoBuilder)
    /\ fn_args.orig_build_meta[Len(fn_args.orig_build_meta)].build = None
    /\ fn_result.value = fn_args.orig_build_meta[1].build

\* C20: an invocation sends at most one build-start POST, whatever the
\* answer to it, and so starts at most one build.
C20_OneBuildStart ==
    \A p \in Procs : sent[p].start <= 1

\* C20 witness: the build-start POST has failed and the invocation has
\* ended without a build number and without a second POST
C20_Witness ==
    \E p \in Procs :
       /\ sent[p].start = 1
       /\ pc[p] = "exited"
       /\ raised[p] \in {"Timeout", "UpstreamError"}
       /\ "reconciled" \in seen[p]
       /\ build_number[p] = None

C22_NameIsFirst64 ==
    (fn = "get_build_targetname" /\ fn_result.state = "returned") =>
       LET whole == TheValue(fn_args.primary_build_target) \o <<"-">>
                       \o SubNonAlnumRuns(fn_args.label)
           cut == IF Len(whole) > 64 THEN SubSeq(whole, 1, 64) ELSE whole
       IN /\ TheValue(fn_result.value) = Lower(cut)
          /\ Len(whole) > 64 => Len(TheValue(fn_result.value)) = 64

\* C23: when a run sends a build-start POST for a target, the branch that
\* target is configured with on the remote system is the clone branch the
\* run resolved, also when the target existed before the run.
C23_BuildsOnResolvedBranch ==
    \A p \in Procs :
       (/\ sent[p].start > 0
        /\ TargetExists(TheValue(build_target_name[p]))) =>
          TargetMeta(TheValue(build_target_name[p])).settings.scm.branch =
             TheValue(branch_and_label[p]).branch

\* C24: when the target of the resolved name exists on the remote system
\* and the fetch of its meta succeeds, get_build_target_meta returns that
\* meta and the run sends no creation POST: a target an earlier run for
\* the same ref has left behind is not created again.
C24_ExistingTargetIsReused ==
    \A p \in Procs :
       existing_meta[p] # None =>
          /\ TheValue(existing_meta[p]) \in targets
          /\ TheValue(existing_meta[p]).name = TheValue(gbtm_name[p])
          /\ "reconciled" \in seen[p]
          /\ "created" \notin seen[p]
          /\ payload[p] = None
          /\ sent[p].create = 0

\* C24 witness: the derived target an earlier run has left behind was
\* fetched and the build was started on it
C24_Witness ==
    \E p \in Procs :
       /\ existing_meta[p] # None
       /\ TheValue(existing_meta[p]) \in EarlierRunTargets(args[p])
       /\ TheValue(existing_meta[p]).name # TheValue(PrimaryBuildTarget(p))
       /\ sent[p].start > 0

\* C25 as stated: if the remote system ends up answering a status request
\* with success, failure, canceled or unknown, a run that polls leaves the
\* poll loop at some time; the loop goes on asking as long as fewer than six
\* timeouts came in a row, however many answers there were, and is left
\* only on one of those four statuses, on a request error that is no
\* timeout, or on six timeouts in a row.
C25_PollLoopEnds ==
    /\ \A p \in Procs : (pc[p] = "poll") ~> (pc[p] # "poll")
    /\ [](\A p \in Procs :
            (p \in launched /\ pc[p] = "poll" /\ timeout_count[p] < 6) =>
               ENABLED Poll(p))
    /\ [][\A p \in Procs :
             (pc[p] = "poll" /\ pc'[p] # "poll") =>
                \/ last_poll'[p] \in
                      {"success", "failure", "canceled", "unknown"}
                \/ last_poll'[p] = "error"
                \/ last_poll[p] = "timeout" /\ timeout_count[p] = 6]_vars

\* C25 with the statuses the loop treats as failed: under the same
\* assumption a run that polls leaves the poll loop at some time; the loop
\* goes on asking as long as fewer than six timeouts came in a row, and is
\* left only on success, failure, canceled, cancelled or unknown, on a
\* request error that is no timeout, or on six timeouts in a row.
C25_PollLoopEndsOrCancelled ==
    /\ \A p \in Procs : (pc[p] = "poll") ~> (pc[p] # "poll")
    /\ [](\A p \in Procs :
            (p \in launched /\ pc[p] = "poll" /\ timeout_count[p] < 6) =>
               ENABLED Poll(p))
    /\ [][\A p \in Procs :
             (pc[p] = "poll" /\ pc'[p] # "poll") =>
                \/ last_poll'[p] \in
                      {"success", "failure", "canceled", "cancelled",
                       "unknown"}
                \/ last_poll'[p] = "error"
                \/ last_poll[p] = "timeout" /\ timeout_count[p] = 6]_vars

\* C25 witness: a run got as many answers as are counted, none of them
\* terminal, and left the loop on the answer canceled
C25_Witness ==
    \E p \in Procs :
       /\ polls[p].answers = MaxPolls
       /\ polls[p].returns = 0
       /\ last_poll[p] = "canceled"
       /\ pc[p] # "poll"

=============================================================================
